---- MODULE Spec2Model ----
(***************************************************************************)
(* Model of ecc-cpp: the prime-field element type (ecc_lib/FieldElement)   *)
(* and the free functions of the multi-precision integer header           *)
(* (ecc_lib/integer.h) that it calls.                                      *)
(*                                                                         *)
(* The arbitrary-precision `integer` is modelled by the mathematical       *)
(* integers.  integer.h only declares the member operators; their bodies   *)
(* follow the design document: exact +, -, *, truncating division whose    *)
(* remainder takes the dividend's sign, magnitude shifts.                  *)
(***************************************************************************)
EXTENDS Integers, FiniteSets, Sequences, TLC

\* ------------------------------------------------------------------ bounds
MaxPrime  == 5     \* moduli and values offered to the constructor: 0..MaxPrime
MaxScalar == 3     \* scalars of operator*(integer): -MaxScalar..MaxScalar
MaxExp    == 6     \* exponents of power(): -2..MaxExp
MaxBase   == 6     \* bases of the free pow(): -MaxBase..MaxBase
MaxPowExp == 6     \* exponents of the free pow(): -2..MaxPowExp
MaxMod    == 5     \* moduli of the three-argument pow(): -1..MaxMod
MaxIterBase == 4   \* bases of the iterator constructor: -1..MaxIterBase
MaxDigit  == 3     \* digits handed to the iterator constructor: 0..MaxDigit
MaxDigits == 3     \* length of the digit sequence: 0..MaxDigits
MaxBigPrime == 13  \* moduli of the division on digit sequences: 1..MaxBigPrime
Spread    == 4     \* 16-bit native values lie within Spread of an edge
MaxLogValue == 20  \* values handed to log(): -1..MaxLogValue
MaxLogBase == 4    \* bases handed to log(): -1..MaxLogBase
MaxLogCount == 7   \* the count of log() is kept modulo MaxLogCount + 1

\* ------------------------------------------------------- program constants
DigitBase == 256   \* INTEGER_DIGIT_T is uint8_t: one digit is one octet
BITS      == 8     \* bits per digit
OCTETS    == 1     \* octets per digit
POSITIVE  == FALSE
NEGATIVE  == TRUE

VARIABLES x, y, last, pw, pm, dc, sz, lg, dv

vars == <<x, y, last, pw, pm, dc, sz, lg, dv>>

\* -------------------------------------------------- integer (big integer)
\* abs(integer)
Abs(n) == IF n < 0 THEN -n ELSE n

\* integer::operator% : remainder of the truncating division, its sign
\* follows the dividend.  Defined for rhs # 0 (divmod throws otherwise).
IntMod(lhs, rhs) ==
    LET r == Abs(lhs) % Abs(rhs) IN IF lhs < 0 THEN -r ELSE r

\* integer::operator/ : the truncating quotient, its sign the xor of the
\* operands' signs.  Defined for rhs # 0.
IntDiv(lhs, rhs) ==
    LET q == Abs(lhs) \div Abs(rhs) IN
    IF (lhs < 0) # (rhs < 0) THEN -q ELSE q

\* integer::operator& with the constant one, on a non-negative lhs
IntAndOne(lhs) == lhs % 2

\* integer::operator>>= by one: the magnitude is floor-divided by 2 and the
\* sign kept
IntShrOne(lhs) == IF lhs < 0 THEN -(Abs(lhs) \div 2) ELSE lhs \div 2

\* integer::operator| on non-negative operands: the bitwise or of the
\* magnitudes
RECURSIVE IntOr(_, _)
IntOr(lhs, rhs) ==
    IF lhs = 0 THEN rhs
    ELSE IF rhs = 0 THEN lhs
    ELSE (IF lhs % 2 = 1 \/ rhs % 2 = 1 THEN 1 ELSE 0)
         + 2 * IntOr(lhs \div 2, rhs \div 2)

\* ------------------------------------- integer as a digit sequence (REP)
\* The magnitude of a non-negative integer: digits of base DigitBase, most
\* significant first, without leading zero digits (zero is the empty
\* sequence).

\* integer::trim
RECURSIVE BigTrim(_)
BigTrim(r) == IF r # <<>> /\ Head(r) = 0 THEN BigTrim(Tail(r)) ELSE r

\* the magnitude of a small non-negative native value
RECURSIVE BigFromNat(_)
BigFromNat(n) ==
    IF n = 0 THEN <<>>
    ELSE BigFromNat(n \div DigitBase) \o <<n % DigitBase>>

Reverse(r) == [i \in 1..Len(r) |-> r[Len(r) + 1 - i]]

\* sum of two magnitudes, least significant digit first, with carry
RECURSIVE LsbAdd(_, _, _)
LsbAdd(lhs, rhs, carry) ==
    IF lhs = <<>> /\ rhs = <<>>
    THEN IF carry = 0 THEN <<>> ELSE <<carry>>
    ELSE LET dl == IF lhs = <<>> THEN 0 ELSE Head(lhs)
             dr == IF rhs = <<>> THEN 0 ELSE Head(rhs)
             t  == dl + dr + carry
         IN  <<t % DigitBase>>
             \o LsbAdd(IF lhs = <<>> THEN <<>> ELSE Tail(lhs),
                       IF rhs = <<>> THEN <<>> ELSE Tail(rhs),
                       t \div DigitBase)

\* product of a magnitude and one digit, least significant digit first
RECURSIVE LsbMulDigit(_, _, _)
LsbMulDigit(lhs, d, carry) ==
    IF lhs = <<>>
    THEN IF carry = 0 THEN <<>> ELSE <<carry>>
    ELSE LET t == Head(lhs) * d + carry
         IN  <<t % DigitBase>> \o LsbMulDigit(Tail(lhs), d, t \div DigitBase)

RECURSIVE LsbMul(_, _)
LsbMul(lhs, rhs) ==
    IF rhs = <<>> THEN <<>>
    ELSE LsbAdd(LsbMulDigit(lhs, Head(rhs), 0),
                <<0>> \o LsbMul(lhs, Tail(rhs)), 0)

\* integer::operator* on magnitudes: the exact product
BigMul(lhs, rhs) == BigTrim(Reverse(LsbMul(Reverse(lhs), Reverse(rhs))))

\* integer::operator% of a magnitude by a small positive modulus
RECURSIVE BigModFrom(_, _, _)
BigModFrom(r, lhs, rhs) ==
    IF lhs = <<>> THEN r
    ELSE BigModFrom((r * DigitBase + Head(lhs)) % rhs, Tail(lhs), rhs)

BigMod(lhs, rhs) == BigModFrom(0, lhs, rhs)

\* -------------------------------------------------------- pow(value, exp)
\* The loop body with the squaring of `value` left out.
PowStepNoSquare(st) ==
    [st EXCEPT !.result = IF IntAndOne(st.exp) # 0
                          THEN st.result * st.value ELSE st.result,
               !.exp    = IntShrOne(st.exp),
               !.iters  = st.iters + 1]

\* One pass through the body of `while (exp)`.
PowStep(st) ==
    [st EXCEPT !.result = IF IntAndOne(st.exp) # 0
                          THEN st.result * st.value ELSE st.result,
               !.exp    = IntShrOne(st.exp),
               !.value  = st.value * st.value,
               !.iters  = st.iters + 1]

\* State on entry to the loop: `integer result = 1`.
PowEnter(value, exp) ==
    [value |-> value, exp |-> exp, result |-> 1, iters |-> 0]

RECURSIVE PowLoop(_)
PowLoop(st) == IF st.exp # 0 THEN PowLoop(PowStep(st)) ELSE st

pow(value, exp) ==
    IF exp < 0 THEN 0 ELSE PowLoop(PowEnter(value, exp)).result

\* ------------------------------------------------------------ FieldElement
\* The outcome of an operation: what it threw (or "ok"), whether the
\* arithmetic expression was evaluated, and the element returned (a set
\* with at most one member; empty when the operation threw).
Thrown(kind, arith) == [status |-> kind, arith |-> arith, out |-> {}]

\* The constructor with the upper bound tested by > in place of >=.
FieldElementOffByOne(num, prime) ==
    IF num > prime \/ num < 0
    THEN Thrown("OutOfRange", TRUE)
    ELSE [status |-> "ok", arith |-> TRUE,
          out |-> {[num |-> num, prime |-> prime]}]

\* FieldElement::FieldElement(num, prime)
FieldElement(num, prime) ==
    IF num >= prime \/ num < 0
    THEN Thrown("OutOfRange", TRUE)
    ELSE [status |-> "ok", arith |-> TRUE,
          out |-> {[num |-> num, prime |-> prime]}]

OperatorPlus(this, other) ==
    IF this.prime # other.prime
    THEN Thrown("IncompatibleField", FALSE)
    ELSE LET calculatedAdd == IntMod(this.num + other.num, this.prime)
         IN  FieldElement(calculatedAdd, this.prime)

\* operator- with the comparison of the primes left out.
OperatorMinusNoCheck(this, other) ==
    LET calculatedAdd == IntMod(this.num - other.num, this.prime)
    IN  FieldElement(calculatedAdd, this.prime)

OperatorMinus(this, other) ==
    IF this.prime # other.prime
    THEN Thrown("IncompatibleField", FALSE)
    ELSE LET calculatedAdd == IntMod(this.num - other.num, this.prime)
         IN  FieldElement(calculatedAdd, this.prime)

\* operator* computing the sum, as the body it was copied from does.
OperatorTimesAsPlus(this, other) ==
    IF this.prime # other.prime
    THEN Thrown("IncompatibleField", FALSE)
    ELSE LET calculatedAdd == IntMod(this.num + other.num, this.prime)
         IN  FieldElement(calculatedAdd, this.prime)

OperatorTimes(this, other) ==
    IF this.prime # other.prime
    THEN Thrown("IncompatibleField", FALSE)
    ELSE LET calculatedAdd == IntMod(this.num * other.num, this.prime)
         IN  FieldElement(calculatedAdd, this.prime)

OperatorTimesScalar(this, other) ==
    LET calculatedAdd == IntMod(this.num * other, this.prime)
    IN  FieldElement(calculatedAdd, this.prime)

\* operator/ raising to prime - 1 in place of prime - 2.
OperatorDivideWrongExp(this, other) ==
    IF this.prime # other.prime
    THEN Thrown("IncompatibleField", FALSE)
    ELSE LET calculatedDiv ==
                 IntMod(this.num * IntMod(pow(other.num, this.prime - 1),
                                          this.prime),
                        this.prime)
         IN  FieldElement(calculatedDiv, this.prime)

OperatorDivide(this, other) ==
    IF this.prime # other.prime
    THEN Thrown("IncompatibleField", FALSE)
    ELSE LET calculatedDiv ==
                 IntMod(this.num * IntMod(pow(other.num, this.prime - 2),
                                          this.prime),
                        this.prime)
         IN  FieldElement(calculatedDiv, this.prime)

\* power reducing the exponent modulo prime in place of prime - 1.
powerModPrime(this, exponent) ==
    LET n             == IntMod(exponent, this.prime)
        calculatedPow == IntMod(pow(this.num, n), this.prime)
    IN  FieldElement(calculatedPow, this.prime)

power(this, exponent) ==
    IF this.prime - 1 = 0
    THEN Thrown("DivisionByZero", TRUE)
    ELSE LET n             == IntMod(exponent, this.prime - 1)
             calculatedPow == IntMod(pow(this.num, n), this.prime)
         IN  FieldElement(calculatedPow, this.prime)

OperatorEq(lhs, rhs) == lhs.num = rhs.num /\ lhs.num = rhs.num

OperatorNe(lhs, rhs) == ~OperatorEq(lhs, rhs)

\* ------------------------------------------------------------ the program
Slots == {"x", "y"}

TheElem(s) == CHOOSE e \in s : TRUE

NoCall ==
    [op |-> "none", status |-> "ok", arith |-> FALSE, lhs |-> {}, rhs |-> {},
     num |-> 0, prime |-> 0, k |-> 0, out |-> {}, eq |-> FALSE, ne |-> FALSE]

PowIdle ==
    [pc |-> "idle", value0 |-> 0, exp0 |-> 0,
     value |-> 0, exp |-> 0, result |-> 0, iters |-> 0]

PowModIdle ==
    [pc |-> "idle", status |-> "ok", base0 |-> 0, exp0 |-> 0, mod0 |-> 0,
     base |-> 0, exp |-> 0, result |-> 0]

IterIdle ==
    [pc |-> "idle", status |-> "ok", constructed |-> FALSE,
     base0 |-> 0, digits0 |-> <<>>, rest |-> <<>>, value |-> 0]

SetFromZIdle ==
    [pc |-> "idle", signed |-> FALSE, width |-> 8, v0 |-> 0,
     val |-> 0, d |-> 0, sign |-> POSITIVE, value |-> <<>>]

LogIdle ==
    [pc |-> "idle", status |-> "ok", value0 |-> 0, base0 |-> 0,
     value |-> 0, count |-> 0]

BigDivIdle ==
    [pc |-> "idle", status |-> "ok", a |-> 0, b |-> 0, p |-> 0, q |-> 0,
     value |-> <<>>, exp |-> 0, result |-> <<>>, out |-> {}]

Init ==
    /\ x = {}
    /\ y = {}
    /\ last = NoCall
    /\ pw = PowIdle
    /\ pm = PowModIdle
    /\ dc = IterIdle
    /\ sz = SetFromZIdle
    /\ lg = LogIdle
    /\ dv = BigDivIdle

\* The caller keeps the returned element in dst; when the operation threw
\* nothing is assigned.
Store(dst, r) ==
    /\ x' = IF dst = "x" /\ r.out # {} THEN r.out ELSE x
    /\ y' = IF dst = "y" /\ r.out # {} THEN r.out ELSE y

Record(op, r, l, rr) ==
    [NoCall EXCEPT !.op = op, !.status = r.status, !.arith = r.arith,
                   !.lhs = l, !.rhs = rr, !.out = r.out]

Construct(dst, v, p) ==
    LET r == FieldElement(v, p) IN
    /\ Store(dst, r)
    /\ last' = [Record("construct", r, {}, {}) EXCEPT !.num = v, !.prime = p]
    /\ UNCHANGED <<pw, pm, dc, sz, lg, dv>>

Add(dst) ==
    /\ x # {} /\ y # {}
    /\ LET r == OperatorPlus(TheElem(x), TheElem(y)) IN
       /\ Store(dst, r)
       /\ last' = Record("add", r, x, y)
    /\ UNCHANGED <<pw, pm, dc, sz, lg, dv>>

Sub(dst) ==
    /\ x # {} /\ y # {}
    /\ LET r == OperatorMinus(TheElem(x), TheElem(y)) IN
       /\ Store(dst, r)
       /\ last' = Record("sub", r, x, y)
    /\ UNCHANGED <<pw, pm, dc, sz, lg, dv>>

Mul(dst) ==
    /\ x # {} /\ y # {}
    /\ LET r == OperatorTimes(TheElem(x), TheElem(y)) IN
       /\ Store(dst, r)
       /\ last' = Record("mul", r, x, y)
    /\ UNCHANGED <<pw, pm, dc, sz, lg, dv>>

MulScalar(dst, k) ==
    /\ x # {}
    /\ LET r == OperatorTimesScalar(TheElem(x), k) IN
       /\ Store(dst, r)
       /\ last' = [Record("scalar", r, x, {}) EXCEPT !.k = k]
    /\ UNCHANGED <<pw, pm, dc, sz, lg, dv>>

Div(dst) ==
    /\ x # {} /\ y # {}
    /\ LET r == OperatorDivide(TheElem(x), TheElem(y)) IN
       /\ Store(dst, r)
       /\ last' = Record("div", r, x, y)
    /\ UNCHANGED <<pw, pm, dc, sz, lg, dv>>

Power(dst, e) ==
    /\ x # {}
    /\ LET r == power(TheElem(x), e) IN
       /\ Store(dst, r)
       /\ last' = [Record("power", r, x, {}) EXCEPT !.k = e]
    /\ UNCHANGED <<pw, pm, dc, sz, lg, dv>>

Compare ==
    /\ x # {} /\ y # {}
    /\ last' = [NoCall EXCEPT !.op = "eq", !.lhs = x, !.rhs = y,
                              !.eq = OperatorEq(TheElem(x), TheElem(y)),
                              !.ne = OperatorNe(TheElem(x), TheElem(y))]
    /\ UNCHANGED <<x, y, pw, pm, dc, sz, lg, dv>>

Next ==
    \/ \E dst \in Slots, v \in -1..MaxPrime, p \in 0..MaxPrime :
           Construct(dst, v, p)
    \/ \E dst \in Slots : Add(dst)
    \/ \E dst \in Slots : Sub(dst)
    \/ \E dst \in Slots : Mul(dst)
    \/ \E dst \in Slots, k \in -MaxScalar..MaxScalar : MulScalar(dst, k)
    \/ \E dst \in Slots : Div(dst)
    \/ \E dst \in Slots, e \in -2..MaxExp : Power(dst, e)
    \/ Compare

Spec == Init /\ [][Next]_vars

\* ------------------------------------------------ the free pow, stepwise
\* A call of pow(value, exp): the early return for a negative exponent,
\* otherwise entry to the loop.
PowCall(v, e) ==
    /\ pw.pc \in {"idle", "done"}
    /\ pw' = IF e < 0
             THEN [pc |-> "done", value0 |-> v, exp0 |-> e,
                   value |-> v, exp |-> e, result |-> 0, iters |-> 0]
             ELSE LET st == PowEnter(v, e) IN
                  [pc |-> "loop", value0 |-> v, exp0 |-> e,
                   value |-> st.value, exp |-> st.exp,
                   result |-> st.result, iters |-> st.iters]
    /\ UNCHANGED <<x, y, last, pm, dc, sz, lg, dv>>

\* while (exp) { ... }
PowIter ==
    /\ pw.pc = "loop"
    /\ pw.exp # 0
    /\ pw' = PowStep(pw)
    /\ UNCHANGED <<x, y, last, pm, dc, sz, lg, dv>>

\* return result
PowReturn ==
    /\ pw.pc = "loop"
    /\ pw.exp = 0
    /\ pw' = [pw EXCEPT !.pc = "done"]
    /\ UNCHANGED <<x, y, last, pm, dc, sz, lg, dv>>

NextPow ==
    \/ \E v \in -MaxBase..MaxBase, e \in -2..MaxPowExp : PowCall(v, e)
    \/ PowIter
    \/ PowReturn

SpecPow == Init /\ [][NextPow]_vars

\* ------------------------------------------ pow(base, exponent, modulus)
\* One pass through the body of `while (exp)` of the modular pow.
PowModStep(st) ==
    [st EXCEPT !.result = IF IntAndOne(st.exp) # 0
                          THEN IntMod(st.result * st.base, st.mod0)
                          ELSE st.result,
               !.exp    = IntShrOne(st.exp),
               !.base   = IntMod(st.base * st.base, st.mod0)]

\* A call: the modulus is checked first, then the sign of the exponent;
\* otherwise exp = exponent, mod = modulus, result = one.
PowModCall(b, e, m) ==
    /\ pm.pc \in {"idle", "done"}
    /\ pm' = IF m = 0
             THEN [pc |-> "done", status |-> "DomainError",
                   base0 |-> b, exp0 |-> e, mod0 |-> m,
                   base |-> b, exp |-> e, result |-> 0]
             ELSE IF e < 0
             THEN [pc |-> "done", status |-> "ok",
                   base0 |-> b, exp0 |-> e, mod0 |-> m,
                   base |-> b, exp |-> e, result |-> 0]
             ELSE [pc |-> "loop", status |-> "ok",
                   base0 |-> b, exp0 |-> e, mod0 |-> m,
                   base |-> b, exp |-> e, result |-> 1]
    /\ UNCHANGED <<x, y, last, pw, dc, sz, lg, dv>>

\* while (exp) { ... }
PowModIter ==
    /\ pm.pc = "loop"
    /\ pm.exp # 0
    /\ pm' = PowModStep(pm)
    /\ UNCHANGED <<x, y, last, pw, dc, sz, lg, dv>>

\* return result
PowModReturn ==
    /\ pm.pc = "loop"
    /\ pm.exp = 0
    /\ pm' = [pm EXCEPT !.pc = "done"]
    /\ UNCHANGED <<x, y, last, pw, dc, sz, lg, dv>>

NextPowMod ==
    \/ \E b \in -MaxBase..MaxBase, e \in -2..MaxPowExp, m \in -1..MaxMod :
           PowModCall(b, e, m)
    \/ PowModIter
    \/ PowModReturn

SpecPowMod == Init /\ [][NextPowMod]_vars

\* ---------------------------------- integer(Iterator start, end, base)
\* The body of the for loop: *this = (*this * base) | *start
IterFold(value, base, digit) == IntOr(value * base, digit)

\* Entry: the delegated default constructor leaves zero; base < 2 throws.
IterCall(base, digits) ==
    /\ dc.pc \in {"idle", "done"}
    /\ dc' = IF base < 2
             THEN [pc |-> "done", status |-> "DomainError",
                   constructed |-> FALSE, base0 |-> base,
                   digits0 |-> digits, rest |-> digits, value |-> 0]
             ELSE [pc |-> "loop", status |-> "ok",
                   constructed |-> FALSE, base0 |-> base,
                   digits0 |-> digits, rest |-> digits, value |-> 0]
    /\ UNCHANGED <<x, y, last, pw, pm, sz, lg, dv>>

\* for (; start != end; start++) { ... }
IterStep ==
    /\ dc.pc = "loop"
    /\ dc.rest # <<>>
    /\ dc' = [dc EXCEPT !.value = IterFold(dc.value, dc.base0, Head(dc.rest)),
                        !.rest  = Tail(dc.rest)]
    /\ UNCHANGED <<x, y, last, pw, pm, sz, lg, dv>>

\* start == end: the constructor completes
IterReturn ==
    /\ dc.pc = "loop"
    /\ dc.rest = <<>>
    /\ dc' = [dc EXCEPT !.pc = "done", !.constructed = TRUE]
    /\ UNCHANGED <<x, y, last, pw, pm, sz, lg, dv>>

DigitSeqs == UNION {[1..n -> 0..MaxDigit] : n \in 0..MaxDigits}

NextIter ==
    \/ \E base \in -1..MaxIterBase, digits \in DigitSeqs :
           IterCall(base, digits)
    \/ IterStep
    \/ IterReturn

SpecIter == Init /\ [][NextIter]_vars

\* ----------------------- operator/ with pow on digit sequences, stepwise
\* One pass through the body of `while (exp)` of pow(value, exp), with
\* value and result held as digit sequences.
PowStepBig(st) ==
    [st EXCEPT !.result = IF IntAndOne(st.exp) # 0
                          THEN BigMul(st.result, st.value) ELSE st.result,
               !.exp    = IntShrOne(st.exp),
               !.value  = BigMul(st.value, st.value)]

\* The exponent taken as prime - 1 in place of prime - 2.
BigDivExponentOffByOne(prime) == prime - 1

\* The exponent operator/ hands to pow.
BigDivExponent(prime) == prime - 2

\* (this->num * (pow(...) % this->prime)) % this->prime
BigDivValue(num, powResult, prime) ==
    IntMod(num * BigMod(powResult, prime), prime)

\* a / b for a = (a, p) and b = (b, q): the check of the primes, then entry
\* to pow(other.num, prime - 2) (which returns 0 at once for a negative
\* exponent).
BigDivCall(a, b, p, q) ==
    /\ dv.pc \in {"idle", "done"}
    /\ dv' = IF p # q
             THEN [BigDivIdle EXCEPT !.pc = "done",
                                     !.status = "IncompatibleField",
                                     !.a = a, !.b = b, !.p = p, !.q = q]
             ELSE IF BigDivExponent(p) < 0
             THEN [BigDivIdle EXCEPT !.pc = "loop",
                                     !.a = a, !.b = b, !.p = p, !.q = q,
                                     !.value = BigFromNat(b),
                                     !.exp = 0, !.result = BigFromNat(0)]
             ELSE [BigDivIdle EXCEPT !.pc = "loop",
                                     !.a = a, !.b = b, !.p = p, !.q = q,
                                     !.value = BigFromNat(b),
                                     !.exp = BigDivExponent(p),
                                     !.result = BigFromNat(1)]
    /\ UNCHANGED <<x, y, last, pw, pm, dc, sz, lg>>

BigPowIter ==
    /\ dv.pc = "loop"
    /\ dv.exp # 0
    /\ dv' = PowStepBig(dv)
    /\ UNCHANGED <<x, y, last, pw, pm, dc, sz, lg>>

\* pow returned: reduce, multiply, reduce and construct the quotient
BigDivReturn ==
    /\ dv.pc = "loop"
    /\ dv.exp = 0
    /\ LET r == FieldElement(BigDivValue(dv.a, dv.result, dv.p), dv.p) IN
       dv' = [dv EXCEPT !.pc = "done", !.status = r.status, !.out = r.out]
    /\ UNCHANGED <<x, y, last, pw, pm, dc, sz, lg>>

NextBigDiv ==
    \/ \E p \in 1..MaxBigPrime, same \in BOOLEAN :
          LET q == IF same THEN p ELSE (p % MaxBigPrime) + 1 IN
          \E a \in 0..(p - 1), b \in 0..(q - 1) : BigDivCall(a, b, p, q)
    \/ BigPowIter
    \/ BigDivReturn

SpecBigDiv == Init /\ [][NextBigDiv]_vars

\* ------------------------------------------------- integer::setFromZ(Z val)
\* Native integer types Z narrower than int: uint8_t, int8_t, uint16_t,
\* int16_t.  Their operands are promoted to int, so -val, val & NEG1 and
\* val >> BITS are computed exactly and the result is converted back to Z.
TwoTo(n) == IF n = 16 THEN 65536 ELSE 256

MinOf(signed, width) == IF signed THEN -(TwoTo(width) \div 2) ELSE 0

MaxOf(signed, width) ==
    IF signed THEN (TwoTo(width) \div 2) - 1 ELSE TwoTo(width) - 1

\* conversion of an int to Z: reduction modulo 2^width into the range of Z
Narrow(n, signed, width) ==
    LET m == n % TwoTo(width) IN
    IF signed /\ m > MaxOf(signed, width) THEN m - TwoTo(width) ELSE m

\* The loop body with push_back in place of push_front.
SetFromZStepPushBack(st) ==
    [st EXCEPT !.value = Append(st.value, st.val % DigitBase),
               !.val   = Narrow(st.val \div TwoTo(BITS), st.signed, st.width),
               !.d     = st.d - 1]

\* _value.push_front(val & NEG1); val >>= BITS; d--
SetFromZStep(st) ==
    [st EXCEPT !.value = <<st.val % DigitBase>> \o st.value,
               !.val   = Narrow(st.val \div TwoTo(BITS), st.signed, st.width),
               !.d     = st.d - 1]

\* Entry, also on assignment to an integer that already holds a value:
\* clear, POSITIVE, then the negation of a negative signed val.
SetFromZCall(signed, width, v) ==
    /\ sz.pc \in {"idle", "done"}
    /\ sz' = [pc |-> "loop", signed |-> signed, width |-> width, v0 |-> v,
              val   |-> IF signed /\ v < 0
                        THEN Narrow(-v, signed, width) ELSE v,
              d     |-> IF (width \div BITS) \div OCTETS > 1
                        THEN (width \div BITS) \div OCTETS ELSE 1,
              sign  |-> IF signed /\ v < 0 THEN NEGATIVE ELSE POSITIVE,
              value |-> <<>>]
    /\ UNCHANGED <<x, y, last, pw, pm, dc, lg, dv>>

\* for (d = sizeof(Z) / OCTETS; d > 0; d--) { ... }
SetFromZIter ==
    /\ sz.pc = "loop"
    /\ sz.d > 0
    /\ sz' = SetFromZStep(sz)
    /\ UNCHANGED <<x, y, last, pw, pm, dc, lg, dv>>

\* return trim()
SetFromZTrim ==
    /\ sz.pc = "loop"
    /\ sz.d = 0
    /\ sz' = [sz EXCEPT !.pc = "done", !.value = BigTrim(sz.value)]
    /\ UNCHANGED <<x, y, last, pw, pm, dc, lg, dv>>

\* the native values offered: every 8-bit value, and the 16-bit values
\* near 0, the digit boundary and the ends of the range
Edges == {0, 128, 256, 32768, 65536, -128, -256, -32768}

NativeValues(signed, width) ==
    IF width = 8
    THEN MinOf(signed, width)..MaxOf(signed, width)
    ELSE {v \in UNION {(e - Spread)..(e + Spread) : e \in Edges} :
             MinOf(signed, width) <= v /\ v <= MaxOf(signed, width)}

NextSetFromZ ==
    \/ \E signed \in BOOLEAN, width \in {8, 16} :
          \E v \in NativeValues(signed, width) : SetFromZCall(signed, width, v)
    \/ SetFromZIter
    \/ SetFromZTrim

SpecSetFromZ == Init /\ [][NextSetFromZ]_vars

\* ------------------------------------------------------- log(value, base)
\* One pass through the body of `while (value)`: value /= base; count++.
\* count grows without bound when the loop does not end, so it is kept
\* modulo MaxLogCount + 1; no call that returns counts that far.
LogStep(st) ==
    [st EXCEPT !.value = IntDiv(st.value, st.base0),
               !.count = (st.count + 1) % (MaxLogCount + 1)]

\* Entry: the domain check, then count = 0.
LogCall(v, b) ==
    /\ lg.pc \in {"idle", "done"}
    /\ lg' = IF b < 1 \/ v <= 0
             THEN [pc |-> "done", status |-> "DomainError",
                   value0 |-> v, base0 |-> b, value |-> v, count |-> 0]
             ELSE [pc |-> "loop", status |-> "ok",
                   value0 |-> v, base0 |-> b, value |-> v, count |-> 0]
    /\ UNCHANGED <<x, y, last, pw, pm, dc, sz, dv>>

\* while (value) { ... }
LogIter ==
    /\ lg.pc = "loop"
    /\ lg.value # 0
    /\ lg' = LogStep(lg)
    /\ UNCHANGED <<x, y, last, pw, pm, dc, sz, dv>>

\* return count
LogReturn ==
    /\ lg.pc = "loop"
    /\ lg.value = 0
    /\ lg' = [lg EXCEPT !.pc = "done"]
    /\ UNCHANGED <<x, y, last, pw, pm, dc, sz, dv>>

NextLog ==
    \/ \E v \in -1..MaxLogValue, b \in -1..MaxLogBase : LogCall(v, b)
    \/ LogIter
    \/ LogReturn

\* A call, once made, keeps running: the loop and the return are taken
\* whenever they can be.  Whether log is called at all is up to the caller.
SpecLog ==
    Init /\ [][NextLog]_vars /\ WF_vars(LogIter) /\ WF_vars(LogReturn)

\* ============================================================ properties
IsPrime(p) == p > 1 /\ \A d \in 2..(p - 1) : p % d # 0

\* b^e by repeated multiplication, e >= 0
RECURSIVE NaivePow(_, _)
NaivePow(b, e) == IF e = 0 THEN 1 ELSE b * NaivePow(b, e - 1)

\* b^e mod p by repeated multiplication, e >= 0, p > 0
RECURSIVE PowerMod(_, _, _)
PowerMod(b, e, p) == IF e = 0 THEN 1 % p ELSE (b * PowerMod(b, e - 1, p)) % p

\* number of binary digits of e >= 0 (0 for e = 0)
RECURSIVE BitLength(_)
BitLength(e) == IF e = 0 THEN 0 ELSE 1 + BitLength(e \div 2)

InRange(e) == 0 <= e.num /\ e.num < e.prime

BinaryOps == {"add", "sub", "mul", "div"}

SamePrime == \A a \in last.lhs, b \in last.rhs : a.prime = b.prime

\* C1: the constructor throws OutOfRange exactly when value < 0 or
\* value >= prime and otherwise yields the element (value, prime); every
\* element that exists, after any sequence of constructions and field
\* operations, has 0 <= value < prime.
C1_ConstructionRange ==
    /\ last.op = "construct" =>
          /\ (last.status = "OutOfRange")
                <=> (last.num < 0 \/ last.num >= last.prime)
          /\ last.status = "OutOfRange" => last.out = {}
          /\ last.status # "OutOfRange" =>
                /\ last.status = "ok"
                /\ last.out = {[num |-> last.num, prime |-> last.prime]}
    /\ \A e \in x \cup y \cup last.out : InRange(e)

\* C1 witness: a construction at the upper edge of the range succeeded
\* while both slots hold elements.
C1_Witness ==
    /\ last.op = "construct" /\ last.status = "ok"
    /\ last.num = last.prime - 1 /\ last.num > 0
    /\ x # {} /\ y # {}

\* C2 (as claimed): for two elements of the same prime field each of +, -,
\* * and / (divisor value nonzero) succeeds and yields a value in [0, p).
C2_FieldClosure ==
    (/\ last.op \in BinaryOps
     /\ SamePrime
     /\ \A a \in last.lhs : IsPrime(a.prime)
     /\ last.op = "div" => \A b \in last.rhs : b.num # 0)
    => /\ last.status = "ok"
       /\ last.out # {}
       /\ \A e \in last.out : InRange(e)

\* C3: +, -, * and / on elements whose primes differ throw
\* IncompatibleField before the arithmetic is evaluated and return no
\* element.
C3_IncompatibleField ==
    (last.op \in BinaryOps /\ ~SamePrime)
    => /\ last.status = "IncompatibleField"
       /\ ~last.arith
       /\ last.out = {}

\* C3 witness: a subtraction of elements of different fields was attempted.
C3_Witness ==
    /\ last.op = "sub"
    /\ ~SamePrime
    /\ \E a \in last.lhs, b \in last.rhs : a.num = b.num

\* C4: for a, b of the same prime p, a + b is the element
\* ((a.value + b.value) mod p, p) and a * b is ((a.value * b.value) mod p, p).
C4_AddMulValue ==
    /\ (last.op = "add" /\ SamePrime) =>
          \A a \in last.lhs, b \in last.rhs :
             /\ last.status = "ok"
             /\ last.out = {[num |-> (a.num + b.num) % a.prime,
                             prime |-> a.prime]}
    /\ (last.op = "mul" /\ SamePrime) =>
          \A a \in last.lhs, b \in last.rhs :
             /\ last.status = "ok"
             /\ last.out = {[num |-> (a.num * b.num) % a.prime,
                             prime |-> a.prime]}

\* C4 witness: a product that had to be reduced.
C4_Witness ==
    /\ last.op = "mul" /\ last.status = "ok"
    /\ \E a \in last.lhs, b \in last.rhs :
          a.prime = b.prime /\ a.num * b.num > a.prime

\* C5: for a prime p and b.value # 0, a / b has the value
\* (a.value * b.value^(p-2)) mod p, and (a / b) * b == a.
C5_DivisionFermat ==
    (last.op = "div" /\ SamePrime)
    => \A a \in last.lhs, b \in last.rhs :
          (IsPrime(a.prime) /\ b.num # 0)
          => /\ last.status = "ok"
             /\ last.out = {[num |-> (a.num * NaivePow(b.num, a.prime - 2))
                                         % a.prime,
                             prime |-> a.prime]}
             /\ \A q \in last.out :
                   LET m == OperatorTimes(q, b) IN
                   /\ m.status = "ok"
                   /\ m.out = {a}
                   /\ \A r \in m.out : OperatorEq(r, a)

\* C5 witness: a division by an element other than 0 and 1 in a prime
\* field.
C5_Witness ==
    /\ last.op = "div" /\ last.status = "ok"
    /\ \E a \in last.lhs, b \in last.rhs :
          /\ a.prime = b.prime /\ IsPrime(a.prime)
          /\ b.num > 1 /\ a.num > 0 /\ a.num # b.num

\* C6: for a prime p, a nonzero and e >= 0, a.power(e) is the element
\* (a.value^e mod p, p); a.power(p-1) == FieldElement(1, p).
C6_PowerValue ==
    last.op = "power"
    => \A a \in last.lhs :
          (IsPrime(a.prime) /\ a.num # 0 /\ last.k >= 0)
          => /\ last.status = "ok"
             /\ last.out = {[num |-> PowerMod(a.num, last.k, a.prime),
                             prime |-> a.prime]}
             /\ last.k = a.prime - 1 =>
                   /\ last.out = FieldElement(1, a.prime).out
                   /\ \A r \in last.out, o \in FieldElement(1, a.prime).out :
                         OperatorEq(r, o)

\* C6 witness: an element other than 0 and 1 raised to an exponent that
\* exceeds p - 1.
C6_Witness ==
    /\ last.op = "power" /\ last.status = "ok"
    /\ \E a \in last.lhs :
          IsPrime(a.prime) /\ a.num > 1 /\ last.k > a.prime - 1

\* C7 (as claimed): operator== is true only if both the values and the
\* primes are equal, and operator!= is its negation.
C7_EqualityNeedsPrime ==
    last.op = "eq"
    => /\ last.eq => last.lhs = last.rhs
       /\ last.ne = ~last.eq

\* C8 (as claimed): a / b with the same prime and b.value = 0 fails with
\* UndefinedInverse and returns no element.
C8_DivideByZeroFails ==
    (/\ last.op = "div"
     /\ SamePrime
     /\ \A b \in last.rhs : b.num = 0)
    => /\ last.status = "UndefinedInverse"
       /\ last.out = {}

\* C9 (as claimed): a * k for an integer k of any sign succeeds and yields
\* the element whose value is a.value * k reduced into [0, p).
C9_ScalarMultiply ==
    last.op = "scalar"
    => \A a \in last.lhs :
          /\ last.status = "ok"
          /\ last.out = {[num |-> (a.num * last.k) % a.prime,
                          prime |-> a.prime]}

\* C10: pow(value, exp) returns 0 for exp < 0 and value^exp for exp >= 0
\* (value^0 = 1, also for value = 0), after one loop iteration per binary
\* digit of exp.
C10_PowValue ==
    pw.pc = "done"
    => IF pw.exp0 < 0
       THEN pw.result = 0 /\ pw.iters = 0
       ELSE /\ pw.result = NaivePow(pw.value0, pw.exp0)
            /\ pw.iters = BitLength(pw.exp0)

\* C10 witness: pow returned from a call with a negative base and an
\* exponent of three binary digits, not all set.
C10_Witness ==
    /\ pw.pc = "done"
    /\ pw.value0 < -1
    /\ pw.exp0 = 5
    /\ pw.iters = 3

\* C11 (as claimed): pow(base, exponent, modulus) fails with a domain error
\* for modulus 0, returns 0 for a negative exponent with a nonzero modulus,
\* and for modulus > 0, base >= 0, exponent >= 0 returns
\* base^exponent mod modulus, a value in [0, modulus).
C11_PowModReduced ==
    pm.pc = "done"
    => /\ pm.mod0 = 0 => pm.status = "DomainError"
       /\ (pm.mod0 # 0 /\ pm.exp0 < 0) =>
             pm.status = "ok" /\ pm.result = 0
       /\ (pm.mod0 > 0 /\ pm.base0 >= 0 /\ pm.exp0 >= 0) =>
             /\ pm.status = "ok"
             /\ pm.result = PowerMod(pm.base0, pm.exp0, pm.mod0)
             /\ 0 <= pm.result /\ pm.result < pm.mod0

\* C14 (as claimed): for a prime p and a nonzero exponent e,
\* FieldElement(0, p).power(e) returns FieldElement(0, p), also when e is a
\* multiple of p - 1.
C14_ZeroBasePower ==
    last.op = "power"
    => \A a \in last.lhs :
          (IsPrime(a.prime) /\ a.num = 0 /\ last.k # 0)
          => /\ last.status = "ok"
             /\ last.out = {[num |-> 0, prime |-> a.prime]}

\* value = value * base + d over the digits, most significant first
RECURSIVE FoldDigits(_, _, _)
FoldDigits(acc, base, ds) ==
    IF ds = <<>> THEN acc
    ELSE FoldDigits(acc * base + Head(ds), base, Tail(ds))

\* C12 (as claimed): the iterator constructor with base >= 2 and digits
\* 0 <= d_i < base yields the fold value = value * base + d_i from 0; with
\* base < 2 it fails and constructs no value.
C12_IteratorFold ==
    dc.pc = "done"
    => /\ dc.base0 < 2 => dc.status = "DomainError" /\ ~dc.constructed
       /\ (/\ dc.base0 >= 2
           /\ \A i \in DOMAIN dc.digits0 : dc.digits0[i] < dc.base0)
          => /\ dc.status = "ok"
             /\ dc.constructed
             /\ dc.value = FoldDigits(0, dc.base0, dc.digits0)

\* C13 (as claimed): with a = FieldElement(7, 13) and b = FieldElement(12, 13)
\* the quotient a / b equals FieldElement(10, 13).
C13_ScenarioTen ==
    (dv.pc = "done" /\ dv.a = 7 /\ dv.b = 12 /\ dv.p = 13 /\ dv.q = 13)
    => /\ dv.status = "ok"
       /\ dv.out # {}
       /\ \A r \in dv.out, o \in FieldElement(10, 13).out : OperatorEq(r, o)

\* C13 (amended): with a = FieldElement(7, 13) and b = FieldElement(12, 13)
\* the quotient a / b is the element (6, 13), which operator== reports equal
\* to FieldElement(6, 13).
C13_ScenarioSix ==
    (dv.pc = "done" /\ dv.a = 7 /\ dv.b = 12 /\ dv.p = 13 /\ dv.q = 13)
    => /\ dv.status = "ok"
       /\ dv.out = {[num |-> 6, prime |-> 13]}
       /\ \A r \in dv.out, o \in FieldElement(6, 13).out : OperatorEq(r, o)

\* C13 witness: the division 7 / 12 in GF(13) returned, its pow having
\* squared 12 up to 12^16.
C13_Witness ==
    /\ dv.pc = "done" /\ dv.a = 7 /\ dv.b = 12 /\ dv.p = 13 /\ dv.q = 13
    /\ Len(dv.value) = 8

\* the number a digit sequence encodes, most significant digit first
RECURSIVE DigitsValue(_, _)
DigitsValue(acc, r) ==
    IF r = <<>> THEN acc
    ELSE DigitsValue(acc * DigitBase + Head(r), Tail(r))

\* C15: an integer set from a native value v (signed or unsigned, the most
\* negative value included) is canonical: the sign is NEGATIVE iff v < 0,
\* the digits (base 2^8, most significant first) encode |v| without a
\* leading zero digit, and v = 0 gives POSITIVE with an empty magnitude.
C15_SetFromZCanonical ==
    sz.pc = "done"
    => /\ (sz.sign = NEGATIVE) <=> (sz.v0 < 0)
       /\ \A i \in DOMAIN sz.value :
             0 <= sz.value[i] /\ sz.value[i] < DigitBase
       /\ sz.value = <<>> \/ Head(sz.value) # 0
       /\ DigitsValue(0, sz.value) = Abs(sz.v0)
       /\ sz.v0 = 0 => sz.sign = POSITIVE /\ sz.value = <<>>

\* C15 witness: the most negative 16-bit value was converted; its negation
\* wrapped and two digits remain.
C15_Witness ==
    /\ sz.pc = "done"
    /\ sz.signed /\ sz.width = 16 /\ sz.v0 = -32768
    /\ sz.value = <<128, 0>>

\* C16 (as claimed): log(value, base) always finishes: it fails with a
\* domain error when base < 1 or value <= 0, and for every accepted input
\* the loop reaches value = 0 and a count is returned.
C16_LogFinishes ==
    /\ [](lg.pc = "done" =>
            ((lg.status = "DomainError")
                <=> (lg.base0 < 1 \/ lg.value0 <= 0)))
    /\ (lg.pc = "loop") ~> (lg.pc = "done" /\ lg.value = 0)

====
